---- MODULE Spec2Model ----
(***************************************************************************)
(* A model of rosm_mbtiles: the metadata codec (write_metadata and          *)
(* read_metadata over the rows of the `metadata` table) and the tile and    *)
(* grid-data stores (write_tile/read_tile, write_grid_data/read_grid_data). *)
(*                                                                          *)
(* Text is a sequence of one-character strings, so that split(","),         *)
(* parse::<u32>(), parse::<f64>() and the formatting done by format!() and  *)
(* by SQLite's TEXT affinity are computed, not assumed.  Geographic degrees *)
(* are whole numbers: the f64 values of the model are the integer-valued    *)
(* ones, whose Display form has no fraction and no exponent.                *)
(***************************************************************************)
EXTENDS Integers, Sequences, FiniteSets, TLC

(***************************************************************************)
(* Bounds of the model.                                                     *)
(***************************************************************************)
\* rows a metadata table handed to read_metadata holds (DecodeSpec)
MaxRows == 2
\* rows already in the metadata table when write_metadata runs (Spec)
MaxPrior == 1
\* rows the tiles table may hold (TileSpec)
MaxTiles == 3
\* rows the grid_data table may hold (GridSpec)
MaxGridRows == 2

(***************************************************************************)
(* Option and Result.                                                       *)
(***************************************************************************)
None == [some |-> FALSE]
Some(v) == [some |-> TRUE, val |-> v]
Ok(v) == [ok |-> TRUE, val |-> v]
Err(e) == [ok |-> FALSE, err |-> e]

(***************************************************************************)
(* Text primitives of the standard library, as the code uses them.          *)
(***************************************************************************)
Digits == <<"0", "1", "2", "3", "4", "5", "6", "7", "8", "9">>
IsDigit(c) == \E d \in 1..10 : Digits[d] = c
DigitVal(c) == (CHOOSE d \in 1..10 : Digits[d] = c) - 1

\* u32::MAX = 4294967295 as a numeral: TLC's integers are narrower than u32,
\* so the overflow test of parse::<u32>() compares numerals.
U32MaxDigits == <<"4", "2", "9", "4", "9", "6", "7", "2", "9", "5">>

RECURSIVE StripZeros(_)
StripZeros(d) ==
    IF Len(d) > 1 /\ Head(d) = "0" THEN StripZeros(Tail(d)) ELSE d

RECURSIVE NumeralGreater(_, _)
\* a > b for two digit sequences of the same length
NumeralGreater(a, b) ==
    IF a = <<>> THEN FALSE
    ELSE IF Head(a) # Head(b) THEN DigitVal(Head(a)) > DigitVal(Head(b))
    ELSE NumeralGreater(Tail(a), Tail(b))

RECURSIVE DigitsValue(_)
DigitsValue(d) ==
    IF d = <<>> THEN 0
    ELSE DigitsValue(SubSeq(d, 1, Len(d) - 1)) * 10 + DigitVal(d[Len(d)])

RECURSIVE ToDecimal(_)
\* Display of a non-negative integer
ToDecimal(n) ==
    IF n < 10 THEN <<Digits[n + 1]>>
    ELSE ToDecimal(n \div 10) \o <<Digits[(n % 10) + 1]>>

\* str::parse::<u32>(): an optional "+", then one or more digits, no overflow.
ParseU32(t) ==
    LET body == IF t # <<>> /\ Head(t) = "+" THEN Tail(t) ELSE t
        sig == StripZeros(body)
    IN  IF /\ body # <<>>
           /\ \A i \in 1..Len(body) : IsDigit(body[i])
           /\ Len(sig) <= 10
           /\ ~(Len(sig) = 10 /\ NumeralGreater(sig, U32MaxDigits))
        THEN Ok(DigitsValue(sig))
        ELSE Err("ParseIntError")

\* str::parse::<f64>() on the texts of the model (signs and digits only; the
\* model's alphabet has no ".", no exponent and no "inf"/"nan").
ParseF64(t) ==
    LET signed == t # <<>> /\ Head(t) \in {"+", "-"}
        body == IF signed THEN Tail(t) ELSE t
    IN  IF body # <<>> /\ \A i \in 1..Len(body) : IsDigit(body[i])
        THEN Ok(IF signed /\ Head(t) = "-"
                THEN 0 - DigitsValue(body) ELSE DigitsValue(body))
        ELSE Err("ParseFloatError")

\* Display of an (integer-valued) f64, as format!("{}", x) prints it
FormatF64(x) == IF x < 0 THEN <<"-">> \o ToDecimal(0 - x) ELSE ToDecimal(x)

RECURSIVE Split(_, _)
\* str::split(sep): always at least one field; "" splits into <<"">>
Split(s, sep) ==
    IF \A i \in 1..Len(s) : s[i] # sep THEN <<s>>
    ELSE LET i == CHOOSE k \in 1..Len(s) :
                      s[k] = sep /\ \A j \in 1..(k - 1) : s[j] # sep
         IN  <<SubSeq(s, 1, i - 1)>> \o Split(SubSeq(s, i + 1, Len(s)), sep)

Comma == <<",">>

(***************************************************************************)
(* rosm_geo: GeoCoord and GeoRect, by the accessors and the fallible        *)
(* constructors the codec calls.                                            *)
(***************************************************************************)
\* GeoCoord::from_degrees(lon, lat): fails outside the valid range
GeoCoordFromDegrees(lon, lat) ==
    IF lon >= 0 - 180 /\ lon <= 180 /\ lat >= 0 - 90 /\ lat <= 90
    THEN Ok([lon |-> lon, lat |-> lat])
    ELSE Err("coord")

\* GeoRect::new(top_left, bottom_right): fails on an inverted rectangle
GeoRectNew(tl, br) ==
    IF tl.lat >= br.lat /\ tl.lon <= br.lon
    THEN Ok([top_left |-> tl, bottom_right |-> br])
    ELSE Err("rect")

(***************************************************************************)
(* common.rs                                                                *)
(***************************************************************************)
T_pbf == <<"p", "b", "f">>
T_jpg == <<"j", "p", "g">>
T_png == <<"p", "n", "g">>
T_webp == <<"w", "e", "b", "p">>
T_overlay == <<"o", "v", "e", "r", "l", "a", "y">>
T_baselayer == <<"b", "a", "s", "e", "l", "a", "y", "e", "r">>

Pbf(mvt) == [tag |-> "Pbf", mvt |-> mvt]
Jpg == [tag |-> "Jpg"]
Png == [tag |-> "Png"]
Webp == [tag |-> "Webp"]
Other(t) == [tag |-> "Other", text |-> t]

\* impl Into<String> for FileFormat
FileFormatInto(f) ==
    CASE f.tag = "Pbf" -> T_pbf
      [] f.tag = "Jpg" -> T_jpg
      [] f.tag = "Png" -> T_png
      [] f.tag = "Webp" -> T_webp
      [] f.tag = "Other" -> f.text

\* impl Default for FileFormat
FileFormatDefault == Other(<<>>)

\* impl Into<&'static str> for Type
TypeInto(t) ==
    CASE t = "Overlay" -> T_overlay
      [] t = "BaseLayer" -> T_baselayer

\* a variant of TypeTryFrom that takes an unknown tag for an overlay
TypeTryFromLenient(value) ==
    CASE value = T_baselayer -> Ok("BaseLayer")
      [] OTHER -> Ok("Overlay")

\* impl TryFrom<&str> for Type
TypeTryFrom(value) ==
    CASE value = T_overlay -> Ok("Overlay")
      [] value = T_baselayer -> Ok("BaseLayer")
      [] OTHER -> Err("type")

\* #[derive(Default)] for Metadata
MetadataDefault ==
    [name |-> <<>>, format |-> FileFormatDefault, bounds |-> None,
     center |-> None, zoom_range |-> None, attribution |-> None,
     description |-> None, type |-> None, version |-> None, custom |-> {}]

\* #[derive(Serialize)] for FieldType: a unit variant is its name as a string
FieldTypeJson(ft) ==
    CASE ft = "Number" -> <<"\"", "N", "u", "m", "b", "e", "r", "\"">>
      [] ft = "Boolean" -> <<"\"", "B", "o", "o", "l", "e", "a", "n", "\"">>
      [] ft = "String" -> <<"\"", "S", "t", "r", "i", "n", "g", "\"">>

\* a JSON string (the texts of the model need no escaping)
JsonString(s) == <<"\"">> \o s \o <<"\"">>

RECURSIVE JsonJoin(_)
\* the elements of a JSON array or object, comma-separated
JsonJoin(items) ==
    IF items = <<>> THEN <<>>
    ELSE IF Len(items) = 1 THEN items[1]
    ELSE items[1] \o <<",">> \o JsonJoin(Tail(items))

\* fields: HashMap<String, FieldType>, as the sequence of its entries
FieldsJson(fields) ==
    <<"{">>
    \o JsonJoin([i \in 1..Len(fields) |->
                    JsonString(fields[i][1]) \o <<":">> \o FieldTypeJson(fields[i][2])])
    \o <<"}">>

\* #[derive(Serialize)] for VectorLayer, with its skip_serializing_if attributes
VectorLayerJson(l) ==
    <<"{">>
    \o <<"\"", "i", "d", "\"", ":">> \o JsonString(l.id)
    \o <<",", "\"", "f", "i", "e", "l", "d", "s", "\"", ":">> \o FieldsJson(l.fields)
    \o (IF l.description = <<>> THEN <<>>
        ELSE <<",", "\"", "d", "e", "s", "c", "r", "i", "p", "t", "i", "o", "n", "\"", ":">>
             \o JsonString(l.description))
    \o (IF l.minzoom.some
        THEN <<",", "\"", "m", "i", "n", "z", "o", "o", "m", "\"", ":">>
             \o ToDecimal(l.minzoom.val)
        ELSE <<>>)
    \o (IF l.maxzoom.some
        THEN <<",", "\"", "m", "a", "x", "z", "o", "o", "m", "\"", ":">>
             \o ToDecimal(l.maxzoom.val)
        ELSE <<>>)
    \o <<"}">>

\* #[derive(Serialize)] for MvtMetadata (tilestats is None in the model and skipped)
MvtMetadataJson(mvt) ==
    <<"{", "\"", "v", "e", "c", "t", "o", "r", "_", "l", "a", "y", "e", "r", "s", "\"", ":", "[">>
    \o JsonJoin([i \in 1..Len(mvt.vector_layers) |->
                    VectorLayerJson(mvt.vector_layers[i])])
    \o <<"]", "}">>

\* The sidecars of the model
LayerA ==
    [id |-> <<"a">>, fields |-> <<>>, description |-> <<>>,
     minzoom |-> None, maxzoom |-> None]
LayerB ==
    [id |-> <<"b">>, fields |-> << <<(<<"n">>), "Number">> >>,
     description |-> <<"d">>, minzoom |-> Some(0), maxzoom |-> Some(5)]
MvtNoLayers == [vector_layers |-> <<>>, tilestats |-> None]
MvtTwoLayers == [vector_layers |-> <<LayerA, LayerB>>, tilestats |-> None]
MvtDomain == {MvtNoLayers, MvtTwoLayers}

\* #[derive(Deserialize)] for MvtMetadata through serde_json::from_str: the
\* sidecar whose serialisation the text is; any other text of the model ("",
\* "{}" without the required vector_layers) is a parse error.
MvtMetadataFromJson(text) ==
    IF \E v \in MvtDomain : MvtMetadataJson(v) = text
    THEN Ok(CHOOSE v \in MvtDomain : MvtMetadataJson(v) = text)
    ELSE Err("json")

(***************************************************************************)
(* write.rs: the metadata encoder.  A table is the sequence of its rows in  *)
(* rowid order.                                                             *)
(***************************************************************************)
\* a variant of InsertMetadata that replaces the rows of the same name
InsertMetadataUpsert(table, name, value) ==
    Append(SelectSeq(table, LAMBDA r : r.name # name),
           [name |-> name, value |-> value])

\* "INSERT INTO metadata (name, value) VALUES (?1, ?2)"
InsertMetadata(table, name, value) ==
    Append(table, [name |-> name, value |-> value])

\* a u32 parameter bound to the TEXT column `value` is stored as its decimal text
SqlText(n) == ToDecimal(n)

\* a variant of InsertZoomRange that writes the two rows in the other order
InsertZoomRangeSwapped(table, zoom_range) ==
    InsertMetadata(InsertMetadata(table, "maxzoom", SqlText(zoom_range.end)),
                   "minzoom", SqlText(zoom_range.start))

\* the body of `if let Some(zoom_range) = &metadata.zoom_range`
InsertZoomRange(table, zoom_range) ==
    InsertMetadata(InsertMetadata(table, "minzoom", SqlText(zoom_range.start)),
                   "maxzoom", SqlText(zoom_range.end))

write_metadata(tr, metadata) ==
    LET t1 == InsertMetadata(tr, "name", metadata.name)
        t2 == IF metadata.format.tag = "Pbf"
              THEN InsertMetadata(t1, "json", MvtMetadataJson(metadata.format.mvt))
              ELSE t1
        t3 == InsertMetadata(t2, "format", FileFormatInto(metadata.format))
        t4 == IF metadata.bounds.some
              THEN LET tl == metadata.bounds.val.top_left
                       br == metadata.bounds.val.bottom_right
                   IN  InsertMetadata(t3, "bounds",
                           FormatF64(tl.lon) \o Comma \o FormatF64(br.lat) \o Comma
                           \o FormatF64(br.lon) \o Comma \o FormatF64(tl.lat))
              ELSE t3
        t5 == IF metadata.center.some
              THEN LET coord == metadata.center.val[1]
                       zoom == metadata.center.val[2]
                   IN  InsertMetadata(t4, "center",
                           FormatF64(coord.lon) \o Comma \o FormatF64(coord.lat)
                           \o Comma \o ToDecimal(zoom))
              ELSE t4
        t6 == IF metadata.zoom_range.some
              THEN InsertZoomRange(t5, metadata.zoom_range.val)
              ELSE t5
        t7 == IF metadata.attribution.some
              THEN InsertMetadata(t6, "attribution", metadata.attribution.val)
              ELSE t6
        t8 == IF metadata.description.some
              THEN InsertMetadata(t7, "description", metadata.description.val)
              ELSE t7
        t9 == IF metadata.type.some
              THEN InsertMetadata(t8, "type", TypeInto(metadata.type.val))
              ELSE t8
        t10 == IF metadata.version.some
               THEN InsertMetadata(t9, "version", SqlText(metadata.version.val))
               ELSE t9
    IN  t10

(***************************************************************************)
(* read.rs: the metadata decoder.                                           *)
(***************************************************************************)
\* the state of read_metadata's loop: the record and the three scratch slots
ReadInit ==
    [metadata |-> MetadataDefault, zoom_range |-> <<None, None>>,
     format_str |-> <<>>, mvt_metadata_json |-> <<>>]

ReadBounds(s, value) ==
    LET split == Split(value, ",")
    IN  IF Len(split) # 4 THEN s
        ELSE LET left == ParseF64(split[1])
                 bottom == ParseF64(split[2])
                 right == ParseF64(split[3])
                 top == ParseF64(split[4])
             IN  IF ~(left.ok /\ bottom.ok /\ right.ok /\ top.ok) THEN s
                 ELSE LET tl == GeoCoordFromDegrees(left.val, top.val)
                          br == GeoCoordFromDegrees(right.val, bottom.val)
                      IN  IF ~(tl.ok /\ br.ok) THEN s
                          ELSE LET bbox == GeoRectNew(tl.val, br.val)
                               IN  IF bbox.ok
                                   THEN [s EXCEPT !.metadata.bounds = Some(bbox.val)]
                                   ELSE s

ReadCenter(s, value) ==
    LET split == Split(value, ",")
    IN  IF Len(split) # 3 THEN s
        ELSE LET lon == ParseF64(split[1])
                 lat == ParseF64(split[2])
                 zoom_level == ParseU32(split[3])
             IN  IF ~(lon.ok /\ lat.ok /\ zoom_level.ok) THEN s
                 ELSE LET coord == GeoCoordFromDegrees(lon.val, lat.val)
                      IN  IF coord.ok
                          THEN [s EXCEPT !.metadata.center =
                                             Some(<<coord.val, zoom_level.val>>)]
                          ELSE s

\* a variant of CustomInsert that keeps the entry a key already has
CustomInsertKeepFirst(custom, key, value) ==
    IF \E p \in custom : p[1] = key THEN custom ELSE custom \cup {<<key, value>>}

\* a variant of CustomInsert that forgets the entries of the other keys
CustomInsertAlone(custom, key, value) == {<<key, value>>}

\* HashMap::insert on custom, a set of <<key, value>> pairs with unique keys
CustomInsert(custom, key, value) ==
    {p \in custom : p[1] # key} \cup {<<key, value>>}

\* one iteration of the loop: the match on the row's name
ReadRow(s, row) ==
    LET name == row.name
        value == row.value
    IN  CASE name = "name" -> [s EXCEPT !.metadata.name = value]
          [] name = "format" -> [s EXCEPT !.format_str = value]
          [] name = "bounds" -> ReadBounds(s, value)
          [] name = "center" -> ReadCenter(s, value)
          [] name = "minzoom" ->
                LET minzoom == ParseU32(value)
                IN  IF minzoom.ok
                    THEN [s EXCEPT !.zoom_range[1] = Some(minzoom.val)]
                    ELSE s
          [] name = "maxzoom" ->
                LET maxzoom == ParseU32(value)
                IN  IF maxzoom.ok
                    THEN [s EXCEPT !.zoom_range[2] = Some(maxzoom.val)]
                    ELSE s
          [] name = "attribution" -> [s EXCEPT !.metadata.attribution = Some(value)]
          [] name = "description" -> [s EXCEPT !.metadata.description = Some(value)]
          [] name = "type" ->
                LET type == TypeTryFrom(value)
                IN  IF type.ok
                    THEN [s EXCEPT !.metadata.type = Some(type.val)]
                    ELSE s
          [] name = "version" ->
                LET version == ParseU32(value)
                IN  IF version.ok
                    THEN [s EXCEPT !.metadata.version = Some(version.val)]
                    ELSE s
          [] name = "json" -> [s EXCEPT !.mvt_metadata_json = value]
          [] OTHER ->
                [s EXCEPT !.metadata.custom = CustomInsert(@, name, value)]

RECURSIVE ReadRowsUntilFormat(_, _)
\* a variant of ReadRows that leaves the loop once it has seen the format row
ReadRowsUntilFormat(s, rows) ==
    IF rows = <<>> THEN s
    ELSE IF Head(rows).name = "format" THEN ReadRow(s, Head(rows))
    ELSE ReadRowsUntilFormat(ReadRow(s, Head(rows)), Tail(rows))

RECURSIVE ReadRows(_, _)
\* while let Some(row) = rows.next()?
ReadRows(s, rows) ==
    IF rows = <<>> THEN s ELSE ReadRows(ReadRow(s, Head(rows)), Tail(rows))

\* a variant of ResolveFormat that parses the sidecar before the match
ResolveFormatEager(format_str, mvt_metadata_json) ==
    LET mvt_metadata == MvtMetadataFromJson(mvt_metadata_json)
    IN  IF ~mvt_metadata.ok THEN Err("json")
        ELSE CASE format_str = T_pbf -> Ok(Pbf(mvt_metadata.val))
               [] format_str = T_jpg -> Ok(Jpg)
               [] format_str = T_png -> Ok(Png)
               [] format_str = T_webp -> Ok(Webp)
               [] OTHER -> Ok(Other(format_str))

\* metadata.format = match format_str.as_str() { ... }
ResolveFormat(format_str, mvt_metadata_json) ==
    CASE format_str = T_pbf ->
            LET mvt_metadata == MvtMetadataFromJson(mvt_metadata_json)
            IN  IF mvt_metadata.ok THEN Ok(Pbf(mvt_metadata.val)) ELSE Err("json")
      [] format_str = T_jpg -> Ok(Jpg)
      [] format_str = T_png -> Ok(Png)
      [] format_str = T_webp -> Ok(Webp)
      [] OTHER -> Ok(Other(format_str))

\* a variant of ResolveZoomRange that fills a missing bound with 0
ResolveZoomRangeDefaulted(zoom_range) ==
    IF zoom_range[1].some \/ zoom_range[2].some
    THEN Some([start |-> IF zoom_range[1].some THEN zoom_range[1].val ELSE 0,
               end |-> IF zoom_range[2].some THEN zoom_range[2].val ELSE 0])
    ELSE None

\* if let (Some(minzoom), Some(maxzoom)) = zoom_range { ... }
ResolveZoomRange(zoom_range) ==
    IF zoom_range[1].some /\ zoom_range[2].some
    THEN Some([start |-> zoom_range[1].val, end |-> zoom_range[2].val])
    ELSE None

\* read_metadata on a metadata table whose SELECT yields `rows`
read_metadata(rows) ==
    LET s == ReadRows(ReadInit, rows)
        format == ResolveFormat(s.format_str, s.mvt_metadata_json)
    IN  IF ~format.ok THEN Err("json")
        ELSE Ok([s.metadata EXCEPT !.format = format.val,
                                   !.zoom_range = ResolveZoomRange(s.zoom_range)])

(***************************************************************************)
(* write.rs / read.rs: the tile store.  A row of `tiles` is a record of its *)
(* columns; the table is the sequence of its rows in rowid order, which is  *)
(* the order a SELECT without an index scans it in.                         *)
(***************************************************************************)
TileKeyOf(row) == <<row.zoom_level, row.tile_column, row.tile_row>>

HasTile(table, tile_id) == \E i \in 1..Len(table) : TileKeyOf(table[i]) = tile_id

\* no two rows of the table share (zoom_level, tile_column, tile_row)
UniqueTiles(table) ==
    \A i, j \in 1..Len(table) : TileKeyOf(table[i]) = TileKeyOf(table[j]) => i = j

\* create_tiles_table: CREATE TABLE fails when the table exists
create_tiles_table(objects) ==
    IF "tiles" \in objects THEN Err("table tiles already exists")
    ELSE Ok(objects \cup {"tiles"})

\* create_tile_index: CREATE UNIQUE INDEX fails without the table, when the
\* index exists, and when the rows already in the table are not unique
create_tile_index(objects, table) ==
    IF "tiles" \notin objects THEN Err("no such table: tiles")
    ELSE IF "tile_index" \in objects THEN Err("index tile_index already exists")
    ELSE IF ~UniqueTiles(table) THEN Err("UNIQUE constraint failed")
    ELSE Ok(objects \cup {"tile_index"})

\* a variant of write_tile that binds x and y in the other order
write_tile_swapped(objects, table, tile_id, tile_data) ==
    IF "tiles" \notin objects THEN Err("no such table: tiles")
    ELSE IF "tile_index" \in objects /\ HasTile(table, <<tile_id[1], tile_id[3], tile_id[2]>>)
    THEN Err("UNIQUE constraint failed")
    ELSE Ok(Append(table, [zoom_level |-> tile_id[1], tile_column |-> tile_id[3],
                           tile_row |-> tile_id[2], tile_data |-> tile_data]))

\* write_tile: a plain INSERT; only the unique index can reject it
write_tile(objects, table, tile_id, tile_data) ==
    IF "tiles" \notin objects THEN Err("no such table: tiles")
    ELSE IF "tile_index" \in objects /\ HasTile(table, tile_id)
    THEN Err("UNIQUE constraint failed")
    ELSE Ok(Append(table, [zoom_level |-> tile_id[1], tile_column |-> tile_id[2],
                           tile_row |-> tile_id[3], tile_data |-> tile_data]))

\* read_tile: the first row the SELECT yields, if any
read_tile(objects, table, tile_id) ==
    IF "tiles" \notin objects THEN Err("no such table: tiles")
    ELSE IF HasTile(table, tile_id)
    THEN LET i == CHOOSE k \in 1..Len(table) :
                      /\ TileKeyOf(table[k]) = tile_id
                      /\ \A j \in 1..(k - 1) : TileKeyOf(table[j]) # tile_id
         IN  Ok(Some(table[i].tile_data))
    ELSE Ok(None)

(***************************************************************************)
(* write.rs / read.rs: the grid-data store.                                 *)
(***************************************************************************)
\* the columns of grid_data, as create_grid_tables declares them
GridDataColumns == {"zoom_level", "tile_column", "tile_row", "key_name", "key_json"}

\* create_grid_tables: creates `grids` and `grid_data`
create_grid_tables(objects) ==
    IF "grids" \in objects THEN Err("table grids already exists")
    ELSE Ok(objects \cup {"grids", "grid_data"})

\* write_grid_data: INSERT INTO grid_data (zoom_level, tile_column, tile_row,
\* key_name, key_json)
write_grid_data(objects, table, tile_id, key, data) ==
    IF "grid_data" \notin objects THEN Err("no such table: grid_data")
    ELSE Ok(Append(table, [zoom_level |-> tile_id[1], tile_column |-> tile_id[2],
                           tile_row |-> tile_id[3], key_name |-> key,
                           key_json |-> data]))

\* the column the WHERE clause of read_grid_data compares with the key
GridDataKeyColumn == "key"

\* read_grid_data: preparing the SELECT fails when it names a column the table
\* does not have; otherwise the first matching row, if any
read_grid_data(objects, table, tile_id, key) ==
    IF "grid_data" \notin objects THEN Err("no such table: grid_data")
    ELSE IF GridDataKeyColumn \notin GridDataColumns
    THEN Err("no such column")
    ELSE LET hit == {k \in 1..Len(table) :
                        /\ TileKeyOf(table[k]) = tile_id
                        /\ table[k][GridDataKeyColumn] = key}
         IN  IF hit = {} THEN Ok(None)
             ELSE Ok(Some(table[CHOOSE k \in hit : \A j \in hit : k <= j].key_json))

(***************************************************************************)
(* The inputs of the model.                                                 *)
(***************************************************************************)
Row(name, value) == [name |-> name, value |-> value]

\* the sequences over S of length at most n
SeqsUpTo(S, n) == UNION {[1..k -> S] : k \in 0..n}

Coord(lon, lat) == [lon |-> lon, lat |-> lat]

\* the Metadata records handed to write_metadata
FormatDomain ==
    {Pbf(mvt) : mvt \in MvtDomain} \cup {Jpg, Png, Webp}
    \cup {Other(<<>>), Other(<<"x">>), Other(T_pbf), Other(T_jpg)}
MetadataDomain ==
    [name : {<<"t">>},
     format : FormatDomain,
     bounds : {None, Some([top_left |-> Coord(0 - 10, 20),
                           bottom_right |-> Coord(30, 0 - 4)])},
     center : {None, Some(<<Coord(5, 0 - 6), 7>>)},
     zoom_range : {None, Some([start |-> 0, end |-> 12])},
     attribution : {None, Some(<<"a">>)},
     description : {None, Some(<<>>)},
     type : {None, Some("Overlay"), Some("BaseLayer")},
     version : {None, Some(3)},
     custom : {{}, {<<"k", <<"v">>>>}}]

\* rows a metadata table may hold before write_metadata runs
PriorRows == {Row("name", <<"b">>), Row("version", <<"9">>)}

\* rows of a metadata table handed to read_metadata: well-formed and
\* malformed values of every recognized name, and unrecognized names
JsonNoLayers == MvtMetadataJson(MvtNoLayers)
RowDomain ==
    {Row("name", <<"a">>), Row("name", <<"b">>),
     Row("format", T_pbf), Row("format", T_jpg), Row("format", <<"x">>),
     Row("json", JsonNoLayers), Row("json", <<"{", "}">>),
     Row("bounds", <<"0", ",", "0", ",", "1", ",", "1">>),
     Row("bounds", <<"-", "1", ",", "0", ",", "1", ",", "1">>),
     Row("bounds", <<"0", ",", "0", ",", "1">>),
     Row("bounds", <<"0", ",", "x", ",", "1", ",", "1">>),
     Row("bounds", <<"0", ",", "0", ",", "1", ",", "9", "1">>),
     Row("center", <<"0", ",", "0", ",", "1">>),
     Row("center", <<"0", ",", "0">>),
     Row("center", <<"0", ",", "0", ",", "x">>),
     Row("minzoom", <<"0">>),
     Row("minzoom", <<"4", "2", "9", "4", "9", "6", "7", "2", "9", "6">>),
     Row("maxzoom", <<"+", "1">>), Row("maxzoom", <<"x">>),
     Row("attribution", <<"a">>),
     Row("description", <<"d">>),
     Row("type", T_overlay), Row("type", <<"x">>),
     Row("version", <<"0", "1">>), Row("version", <<"-", "1">>),
     Row("k", <<"v">>), Row("k", <<"w">>), Row("Name", <<"a">>)}

\* tile ids (z, x, y), tile blobs, grid keys and grid JSON texts
TileIds == {<<1, 2, 3>>, <<1, 3, 2>>}
TileData == {<<>>, <<31, 139>>}
GridKeys == {<<"a">>, <<"b">>}
GridJson == {<<"{", "}">>}

(***************************************************************************)
(* The state: the database (its schema objects and the rows of its tables), *)
(* the last call and its result.                                            *)
(***************************************************************************)
VARIABLES
    objects,      \* the tables and indexes created so far
    metadata,     \* rows of the metadata table
    tiles,        \* rows of the tiles table
    grid_data,    \* rows of the grid_data table
    call,         \* the last call: its name and arguments
    wrote,        \* the last write_metadata call: its record and the rows before it
    tile_log,     \* per tile id, the blobs of the write_tile calls that succeeded
    result        \* what the last call returned

vars == <<objects, metadata, tiles, grid_data, call, wrote, tile_log, result>>

NoCall == [name |-> "none"]

\* an archive whose metadata table holds a few rows
Init ==
    /\ objects = {"metadata"}
    /\ metadata \in SeqsUpTo(PriorRows, MaxPrior)
    /\ tiles = <<>>
    /\ grid_data = <<>>
    /\ call = NoCall
    /\ wrote = None
    /\ tile_log = [id \in TileIds |-> <<>>]
    /\ result = None

\* an archive whose metadata table was filled by another producer
DecodeInit ==
    /\ objects = {"metadata"}
    /\ metadata \in SeqsUpTo(RowDomain, MaxRows)
    /\ tiles = <<>>
    /\ grid_data = <<>>
    /\ call = NoCall
    /\ wrote = None
    /\ tile_log = [id \in TileIds |-> <<>>]
    /\ result = None

\* a new database file
StoreInit ==
    /\ objects = {}
    /\ metadata = <<>>
    /\ tiles = <<>>
    /\ grid_data = <<>>
    /\ call = NoCall
    /\ wrote = None
    /\ tile_log = [id \in TileIds |-> <<>>]
    /\ result = None

WriteMetadata(m) ==
    /\ Len(metadata) <= MaxPrior
    /\ metadata' = write_metadata(metadata, m)
    /\ call' = [name |-> "write_metadata"]
    /\ wrote' = Some([metadata |-> m, before |-> metadata])
    /\ result' = Ok(<<>>)
    /\ UNCHANGED <<objects, tiles, grid_data, tile_log>>

ReadMetadata ==
    /\ call' = [name |-> "read_metadata"]
    /\ result' = read_metadata(metadata)
    /\ UNCHANGED <<objects, metadata, tiles, grid_data, wrote, tile_log>>

CreateTilesTable ==
    LET r == create_tiles_table(objects)
    IN  /\ call' = [name |-> "create_tiles_table"]
        /\ objects' = IF r.ok THEN r.val ELSE objects
        /\ result' = IF r.ok THEN Ok(<<>>) ELSE r
        /\ UNCHANGED <<metadata, tiles, grid_data, wrote, tile_log>>

CreateTileIndex ==
    LET r == create_tile_index(objects, tiles)
    IN  /\ call' = [name |-> "create_tile_index"]
        /\ objects' = IF r.ok THEN r.val ELSE objects
        /\ result' = IF r.ok THEN Ok(<<>>) ELSE r
        /\ UNCHANGED <<metadata, tiles, grid_data, wrote, tile_log>>

WriteTile(tile_id, tile_data) ==
    LET r == write_tile(objects, tiles, tile_id, tile_data)
    IN  /\ Len(tiles) < MaxTiles
        /\ call' = [name |-> "write_tile", tile_id |-> tile_id,
                    tile_data |-> tile_data]
        /\ tiles' = IF r.ok THEN r.val ELSE tiles
        /\ tile_log' = IF r.ok THEN [tile_log EXCEPT ![tile_id] = Append(@, tile_data)]
                       ELSE tile_log
        /\ result' = IF r.ok THEN Ok(<<>>) ELSE r
        /\ UNCHANGED <<objects, metadata, grid_data, wrote>>

ReadTile(tile_id) ==
    /\ call' = [name |-> "read_tile", tile_id |-> tile_id]
    /\ result' = read_tile(objects, tiles, tile_id)
    /\ UNCHANGED <<objects, metadata, tiles, grid_data, wrote, tile_log>>

CreateGridTables ==
    LET r == create_grid_tables(objects)
    IN  /\ call' = [name |-> "create_grid_tables"]
        /\ objects' = IF r.ok THEN r.val ELSE objects
        /\ result' = IF r.ok THEN Ok(<<>>) ELSE r
        /\ UNCHANGED <<metadata, tiles, grid_data, wrote, tile_log>>

WriteGridData(tile_id, key, data) ==
    LET r == write_grid_data(objects, grid_data, tile_id, key, data)
    IN  /\ Len(grid_data) < MaxGridRows
        /\ call' = [name |-> "write_grid_data", tile_id |-> tile_id,
                    key |-> key, data |-> data]
        /\ grid_data' = IF r.ok THEN r.val ELSE grid_data
        /\ result' = IF r.ok THEN Ok(<<>>) ELSE r
        /\ UNCHANGED <<objects, metadata, tiles, wrote, tile_log>>

ReadGridData(tile_id, key) ==
    /\ call' = [name |-> "read_grid_data", tile_id |-> tile_id, key |-> key]
    /\ result' = read_grid_data(objects, grid_data, tile_id, key)
    /\ UNCHANGED <<objects, metadata, tiles, grid_data, wrote, tile_log>>

Next ==
    \/ \E m \in MetadataDomain : WriteMetadata(m)
    \/ ReadMetadata

DecodeNext == ReadMetadata

TileNext ==
    \/ CreateTilesTable
    \/ CreateTileIndex
    \/ \E id \in TileIds, data \in TileData : WriteTile(id, data)
    \/ \E id \in TileIds : ReadTile(id)

GridNext ==
    \/ CreateGridTables
    \/ \E id \in TileIds, key \in GridKeys, data \in GridJson :
           WriteGridData(id, key, data)
    \/ \E id \in TileIds, key \in GridKeys : ReadGridData(id, key)

\* the encoder and the decoder on an archive
Spec == Init /\ [][Next]_vars
\* the decoder on the rows of a foreign archive
DecodeSpec == DecodeInit /\ [][DecodeNext]_vars
\* the tile store of a new archive
TileSpec == StoreInit /\ [][TileNext]_vars
\* the grid-data store of a new archive
GridSpec == StoreInit /\ [][GridNext]_vars

(***************************************************************************)
(* The encoder.                                                             *)
(***************************************************************************)
ReservedTags == {T_pbf, T_jpg, T_png, T_webp}

\* the record last written, and the rows that call added to the table
Written == wrote.val.metadata
Emitted == SubSeq(metadata, Len(wrote.val.before) + 1, Len(metadata))
EmittedNames == {Emitted[i].name : i \in 1..Len(Emitted)}

\* equal in every field but custom
SameButCustom(a, b) ==
    /\ a.name = b.name
    /\ a.format = b.format
    /\ a.bounds = b.bounds
    /\ a.center = b.center
    /\ a.zoom_range = b.zoom_range
    /\ a.attribution = b.attribution
    /\ a.description = b.description
    /\ a.type = b.type
    /\ a.version = b.version

\* read_metadata has just run on the rows one write_metadata put into an
\* empty table
RoundTripCase ==
    /\ call.name = "read_metadata"
    /\ wrote.some
    /\ wrote.val.before = <<>>

\* C1 as stated: for every record m, Other(t) of any text t included,
\* write_metadata(m) into an empty table followed by read_metadata succeeds
\* and returns m in every field but custom.
C1_RoundTripAnyFormat ==
    RoundTripCase => result.ok /\ SameButCustom(result.val, Written)

\* The round trip does hold for every record whose format is not Other(t)
\* with t one of the reserved tags "pbf", "jpg", "png", "webp".
RoundTripUnreserved ==
    RoundTripCase /\ ~(Written.format.tag = "Other" /\ Written.format.text \in ReservedTags)
        => result.ok /\ SameButCustom(result.val, Written)

\* a vector-tile record with every optional field present made the round trip
RoundTripReached ==
    /\ RoundTripCase
    /\ result.ok
    /\ Written.format = Pbf(MvtTwoLayers)
    /\ Written.bounds.some /\ Written.center.some /\ Written.zoom_range.some
    /\ Written.attribution.some /\ Written.description.some
    /\ Written.type.some /\ Written.version.some
    /\ result.val.format = Written.format
    /\ result.val.bounds = Written.bounds

EmitOrder ==
    <<"name", "json", "format", "bounds", "center", "minzoom", "maxzoom",
      "attribution", "description", "type", "version">>
EmitPos(n) == CHOOSE i \in 1..Len(EmitOrder) : EmitOrder[i] = n

\* C8: the rows write_metadata(m) inserts are, in this order and each at most
\* once, name (always), json (iff m.format is Pbf), format (always), bounds,
\* center, minzoom and maxzoom (both iff zoom_range is present), attribution,
\* description, type, version (each iff present); no other row, in particular
\* none for an entry of m.custom.
C8_EmitSequence ==
    call.name = "write_metadata" =>
        /\ \A i \in 1..Len(Emitted) :
               \E k \in 1..Len(EmitOrder) : EmitOrder[k] = Emitted[i].name
        /\ \A i, j \in 1..Len(Emitted) :
               i < j => EmitPos(Emitted[i].name) < EmitPos(Emitted[j].name)
        /\ "name" \in EmittedNames
        /\ "format" \in EmittedNames
        /\ ("json" \in EmittedNames) = (Written.format.tag = "Pbf")
        /\ ("bounds" \in EmittedNames) = Written.bounds.some
        /\ ("center" \in EmittedNames) = Written.center.some
        /\ ("minzoom" \in EmittedNames) = Written.zoom_range.some
        /\ ("maxzoom" \in EmittedNames) = Written.zoom_range.some
        /\ ("attribution" \in EmittedNames) = Written.attribution.some
        /\ ("description" \in EmittedNames) = Written.description.some
        /\ ("type" \in EmittedNames) = Written.type.some
        /\ ("version" \in EmittedNames) = Written.version.some

\* a vector-tile record with a custom entry and every optional field was
\* written: all eleven rows, and none for the custom entry
C8_Witness ==
    /\ call.name = "write_metadata"
    /\ Written.format.tag = "Pbf"
    /\ Written.custom # {}
    /\ Written.zoom_range.some /\ Written.bounds.some /\ Written.center.some
    /\ Written.attribution.some /\ Written.description.some
    /\ Written.type.some /\ Written.version.some
    /\ Len(Emitted) = 11

\* the number of populated fields of a record, counted field by field
Populated(m) ==
    2 + (IF m.format.tag = "Pbf" THEN 1 ELSE 0)
      + (IF m.bounds.some THEN 1 ELSE 0)
      + (IF m.center.some THEN 1 ELSE 0)
      + (IF m.zoom_range.some THEN 2 ELSE 0)
      + (IF m.attribution.some THEN 1 ELSE 0)
      + (IF m.description.some THEN 1 ELSE 0)
      + (IF m.type.some THEN 1 ELSE 0)
      + (IF m.version.some THEN 1 ELSE 0)

\* C9: write_metadata(m) leaves every row the table held unchanged and in
\* place, and adds exactly one row per populated field of m, whatever the
\* table held before.
C9_AppendOnly ==
    call.name = "write_metadata" =>
        /\ Len(metadata) = Len(wrote.val.before) + Populated(Written)
        /\ SubSeq(metadata, 1, Len(wrote.val.before)) = wrote.val.before

\* a record was written into a table that already held a "name" row, which
\* is still there next to the new one
C9_Witness ==
    /\ call.name = "write_metadata"
    /\ \E i \in 1..Len(wrote.val.before) : wrote.val.before[i].name = "name"
    /\ Cardinality({i \in 1..Len(metadata) : metadata[i].name = "name"}) >= 2

(***************************************************************************)
(* The decoder.                                                             *)
(***************************************************************************)
RecognizedNames ==
    {"name", "format", "json", "bounds", "center", "minzoom", "maxzoom",
     "attribution", "description", "type", "version"}

Remove(rows, i) == SubSeq(rows, 1, i - 1) \o SubSeq(rows, i + 1, Len(rows))

RECURSIVE KeepFrom(_, _, _)
\* the rows whose index is in K, in order, from index i on
KeepFrom(rows, K, i) ==
    IF i > Len(rows) THEN <<>>
    ELSE (IF i \in K THEN <<rows[i]>> ELSE <<>>) \o KeepFrom(rows, K, i + 1)

\* the value of the last row named n, or `default` when there is none
LastValue(rows, n, default) ==
    LET at == {i \in 1..Len(rows) : rows[i].name = n}
    IN  IF at = {} THEN default
        ELSE rows[CHOOSE i \in at : \A j \in at : j <= i].value

InRange(x, limit) == x >= 0 - limit /\ x <= limit

MalformedBounds(v) ==
    LET f == Split(v, ",")
    IN  \/ Len(f) # 4
        \/ \E k \in 1..4 : ~ParseF64(f[k]).ok
        \/ ~InRange(ParseF64(f[1]).val, 180) \/ ~InRange(ParseF64(f[3]).val, 180)
        \/ ~InRange(ParseF64(f[2]).val, 90) \/ ~InRange(ParseF64(f[4]).val, 90)
        \/ ParseF64(f[1]).val > ParseF64(f[3]).val
        \/ ParseF64(f[2]).val > ParseF64(f[4]).val

MalformedCenter(v) ==
    LET f == Split(v, ",")
    IN  \/ Len(f) # 3
        \/ ~ParseF64(f[1]).ok \/ ~ParseF64(f[2]).ok \/ ~ParseU32(f[3]).ok
        \/ ~InRange(ParseF64(f[1]).val, 180) \/ ~InRange(ParseF64(f[2]).val, 90)

\* the value of the row is malformed for its name
Malformed(row) ==
    CASE row.name = "bounds" -> MalformedBounds(row.value)
      [] row.name = "center" -> MalformedCenter(row.value)
      [] row.name \in {"minzoom", "maxzoom", "version"} -> ~ParseU32(row.value).ok
      [] row.name = "type" -> row.value \notin {T_overlay, T_baselayer}
      [] OTHER -> FALSE

\* the field of the record a row of that name decodes into
FieldOf(m, n) ==
    CASE n = "bounds" -> m.bounds
      [] n = "center" -> m.center
      [] n \in {"minzoom", "maxzoom"} -> m.zoom_range
      [] n = "type" -> m.type
      [] n = "version" -> m.version

Decoded == call.name = "read_metadata"

\* C2: read_metadata fails if and only if the format tag left by the last
\* format row ("" without one) is "pbf" and the text of the last json row (""
\* without one) does not parse as the sidecar; with any other format a missing
\* or malformed json row is no failure.
C2_FailsIffPbfWithoutSidecar ==
    Decoded =>
        (~result.ok) =
            (/\ LastValue(metadata, "format", <<>>) = T_pbf
             /\ ~MvtMetadataFromJson(LastValue(metadata, "json", <<>>)).ok)

\* both directions: a pbf archive without a json row was refused
C2_Witness ==
    /\ Decoded
    /\ ~result.ok
    /\ \E i \in 1..Len(metadata) : metadata[i] = Row("format", T_pbf)
    /\ \A i \in 1..Len(metadata) : metadata[i].name # "json"

\* the rows that are the last of their name
LastOfName(rows) ==
    {i \in 1..Len(rows) : \A j \in (i + 1)..Len(rows) : rows[j].name # rows[i].name}

\* the rows that no later well-formed row of the same name follows
LastWellFormedOfName(rows) ==
    {i \in 1..Len(rows) :
        \A j \in (i + 1)..Len(rows) :
            rows[j].name = rows[i].name => Malformed(rows[j])}

C4_MalformedMeansAbsent ==
    Decoded =>
        \A i \in 1..Len(metadata) :
            Malformed(metadata[i]) =>
                /\ result.ok = read_metadata(Remove(metadata, i)).ok
                /\ result.ok => FieldOf(result.val, metadata[i].name) = None

\* C4, amended: a malformed row never makes read_metadata fail and changes
\* nothing in what it returns; the field of its name is absent when no row of
\* that name is well-formed (for zoom_range: no minzoom row, or no maxzoom row).
C4_MalformedIgnored ==
    Decoded =>
        \A i \in 1..Len(metadata) :
            Malformed(metadata[i]) =>
                /\ result = read_metadata(Remove(metadata, i))
                /\ (/\ result.ok
                    /\ \A j \in 1..Len(metadata) :
                           metadata[j].name = metadata[i].name => Malformed(metadata[j]))
                       => FieldOf(result.val, metadata[i].name) = None

\* a bounds row of three fields and an unknown type tag were decoded without
\* failure, into a record without bounds and without type
C4_Witness ==
    /\ Decoded
    /\ Len(metadata) = 2
    /\ metadata[1] = Row("bounds", <<"0", ",", "0", ",", "1">>)
    /\ metadata[2] = Row("type", <<"x">>)
    /\ result.ok
    /\ result.val.bounds = None /\ result.val.type = None

\* the zoom levels the rows named n parse into
ParsedZooms(rows, n) ==
    {ParseU32(rows[i].value).val :
        i \in {k \in 1..Len(rows) : rows[k].name = n /\ ParseU32(rows[k].value).ok}}

\* C5: zoom_range is Some(min..=max) if and only if some minzoom row and some
\* maxzoom row parse as u32, min and max being values of such rows; only
\* minzoom, only maxzoom, or an unparsable counterpart give None.
C5_ZoomRangeNeedsBoth ==
    Decoded /\ result.ok =>
        /\ result.val.zoom_range.some =
               (ParsedZooms(metadata, "minzoom") # {} /\ ParsedZooms(metadata, "maxzoom") # {})
        /\ result.val.zoom_range.some =>
               /\ result.val.zoom_range.val.start \in ParsedZooms(metadata, "minzoom")
               /\ result.val.zoom_range.val.end \in ParsedZooms(metadata, "maxzoom")

\* a minzoom row and a maxzoom row were decoded into 0..=1
C5_Witness ==
    /\ Decoded
    /\ result.ok
    /\ \E i \in 1..Len(metadata) : metadata[i] = Row("minzoom", <<"0">>)
    /\ \E i \in 1..Len(metadata) : metadata[i] = Row("maxzoom", <<"+", "1">>)
    /\ result.val.zoom_range = Some([start |-> 0, end |-> 1])

\* C6: when read_metadata succeeds, the keys of custom are exactly the row
\* names outside the 11 recognized ones (case-sensitive), each key once, with
\* the verbatim value of a row of that name.
C6_CustomCatchAll ==
    Decoded /\ result.ok =>
        LET custom == result.val.custom
        IN  /\ {p[1] : p \in custom}
                   = {metadata[i].name : i \in 1..Len(metadata)} \ RecognizedNames
            /\ \A p, q \in custom : p[1] = q[1] => p = q
            /\ \A p \in custom :
                   \E i \in 1..Len(metadata) :
                       metadata[i].name = p[1] /\ metadata[i].value = p[2]

\* "Name" is not "name": two unrecognized rows were decoded into two entries
C6_Witness ==
    /\ Decoded
    /\ result.ok
    /\ result.val.custom = {<<"Name", <<"a">>>>, <<"k", <<"v">>>>}
    /\ result.val.name = <<>>

(***************************************************************************)
(* The tile store and the grid-data store.                                  *)
(***************************************************************************)
TileRead == call.name = "read_tile" /\ "tiles" \in objects

\* C7 as stated: with or without the unique tile_index, read_tile(k) returns
\* the bytes of the last write_tile(k, b) that succeeded, and None, not an
\* error, for a key never written.
C7_ReadsLastWrite ==
    TileRead =>
        result = IF tile_log[call.tile_id] = <<>> THEN Ok(None)
                 ELSE Ok(Some(tile_log[call.tile_id][Len(tile_log[call.tile_id])]))

\* C7, amended: read_tile(k) returns Some(b) after write_tile(k, b) succeeded
\* on a table that held no row for k, which is every write_tile that succeeds
\* under the unique tile_index; and None, not an error, for a key never
\* written.
C7_ReadsOnlyWrite ==
    /\ TileRead =>
           /\ tile_log[call.tile_id] = <<>> => result = Ok(None)
           /\ Len(tile_log[call.tile_id]) = 1
                  => result = Ok(Some(tile_log[call.tile_id][1]))
    /\ "tile_index" \in objects => \A id \in TileIds : Len(tile_log[id]) <= 1

\* under the index, the blob written at (1, 2, 3) was read back, and a second
\* write of that key had been refused
C7_Witness ==
    /\ TileRead
    /\ "tile_index" \in objects
    /\ call.tile_id = <<1, 2, 3>>
    /\ tile_log[<<1, 2, 3>>] = <<(<<31, 139>>)>>
    /\ tile_log[<<1, 3, 2>>] = <<(<<>>)>>
    /\ result = Ok(Some(<<31, 139>>))

\* the grid JSON texts written so far for a tile id and a key
GridWritten(tile_id, key) ==
    {grid_data[i].key_json :
        i \in {k \in 1..Len(grid_data) :
                  TileKeyOf(grid_data[k]) = tile_id /\ grid_data[k].key_name = key}}

\* C10: on the tables create_grid_tables made, read_grid_data(tile_id, key)
\* returns Some(data) after write_grid_data(tile_id, key, data) succeeded.
C10_GridDataReadBack ==
    /\ call.name = "read_grid_data"
    /\ "grid_data" \in objects
    /\ GridWritten(call.tile_id, call.key) # {}
    => /\ result.ok
       /\ result.val.some
       /\ result.val.val \in GridWritten(call.tile_id, call.key)

(***************************************************************************)
(* The decoder and the order of the rows.                                   *)
(***************************************************************************)
\* no name occurs twice among the rows
UniqueNames(rows) ==
    \A i, j \in 1..Len(rows) : rows[i].name = rows[j].name => i = j

\* the enumeration orders of n rows
Orders(n) ==
    {p \in [1..n -> 1..n] : \A i, j \in 1..n : p[i] = p[j] => i = j}

\* C11: on rows in which no name occurs twice, read_metadata gives the same
\* outcome (the same error or the same record) for every order the rows are
\* enumerated in; the format and json rows in particular resolve alike
\* whichever comes first.
C11_OrderIndependent ==
    Decoded /\ UniqueNames(metadata) =>
        \A p \in Orders(Len(metadata)) :
            read_metadata([i \in 1..Len(metadata) |-> metadata[p[i]]]) = result

\* the json row came after the format row and the sidecar was resolved, as
\* it is with the json row first
C11_Witness ==
    /\ Decoded
    /\ metadata = <<Row("format", T_pbf), Row("json", JsonNoLayers)>>
    /\ result = Ok([MetadataDefault EXCEPT !.format = Pbf(MvtNoLayers)])
    /\ read_metadata(<<metadata[2], metadata[1]>>) = result

====
